---- MODULE Spec2Model ----
(***************************************************************************)
(* doma: the GPU group manager (src/src/doma/gpu.py), its listener loop,   *)
(* the controllers loop thread, and per device one controller with its     *)
(* sampler (inspect) thread and its hold thread.                           *)
(*                                                                         *)
(* Threads are interleaved at the granularity of one loop iteration or one *)
(* blocking call (accept, join).  Memory is measured in whole units; the   *)
(* idle window int(wait_minutes*60) is scaled down to a few samples.       *)
(***************************************************************************)
EXTENDS Integers, Sequences, FiniteSets, TLC

\* ------------------------------------------------------------- bounds
\* torch.cuda.device_count() of the modelled host.
NumDevices == 1
\* Connections the listener accepts in one run.
MaxRequests == 3
\* Largest used_mem reading a sample can carry (readings are 0..MaxUsedMem).
MaxUsedMem == 1
\* Largest idle window int(wait_minutes*60), in samples.
MaxWindow == 2

\* ------------------------------------------------------------- values
Signal == {"START", "STOP", "RESTART", "SHUTDOWN", "GREETING"}

\* ControllerConfig values on the wire; "None" is the absent config.
Configs == {"default", "alt"}

\* deque(maxlen=int(config.wait_minutes * 60))
QueueMaxlen(cfg) == IF cfg = "default" THEN MaxWindow ELSE 1

\* config.mem_threshold
mem_threshold(cfg) == IF cfg = "default" THEN 1 ELSE 2

\* Python values that can sit in SocketData.error.
NoError == [type |-> "NoneType", text |-> ""]
StrOf(msg) == [type |-> "str", text |-> msg]

\* SocketData(signal=..., error=...): the field is Optional[Exception] with
\* arbitrary_types_allowed, so validation is an isinstance check.
SocketDataValid(err) == err.type \in {"NoneType", "Exception"}

\* update_config without its `is not None` test.
update_config_Always(cur, new) == new

\* update_config
update_config(cur, new) == IF new # "None" THEN new ELSE cur

\* ------------------------------------------------------------- state
VARIABLES
    lpc,              \* position of listen_signal
    run,              \* local `run` of listen_signal
    socket_data,      \* the request read from the accepted connection
    error,            \* local `error` of listen_signal
    conn,             \* the accepted connection: "none", "open", "closed"
    response,         \* the responses sent so far
    served,           \* connections accepted so far
    socket_open,      \* the listening socket is open
    address_exists,   \* os.path.exists(server_address)
    config,           \* GPUGroupManager.config
    running_signal,   \* GPUGroupManager.running_signal
    running_thread,   \* GPUGroupManager.running_thread: "None" or its position
    loop_index,       \* the controller _controllers_loop is at
    gpu_controllers,  \* GPUGroupManager.gpu_controllers; <<>> is None
    discarded,        \* controllers no longer referenced, with live threads
    hold,             \* the locals of one GPUController.hold run
    wire,             \* one client exchange: connection, byte stream, receiver
    life,             \* launch / daemonize / shutdown: processes and files
    history           \* one controller's history lock and the threads using it

vars == <<lpc, run, socket_data, error, conn, response, served, socket_open,
          address_exists, config, running_signal, running_thread, loop_index,
          gpu_controllers, discarded, hold, wire, life, history>>

\* The state of the other components, which the manager's steps leave alone.
side_vars == <<hold, wire, life, history>>

listener_vars == <<lpc, run, socket_data, error, conn, response, served,
                   socket_open>>
manager_vars == <<config, running_signal, running_thread, loop_index,
                  gpu_controllers, discarded>>

\* ------------------------------------------------------ GPUController
\* GPUController.__init__: the object, with its sampler thread started.
\* inspect_executor and holding_executor hold the position of the thread
\* ("None": no thread object).  `referenced` tells whether the manager's
\* gpu_controllers list still holds the object.  A snapshot is modelled by
\* its used_mem reading, the only field the manager reads.
GPUController(id, cfg) ==
    [id |-> id,
     config |-> cfg,
     stop_signal |-> FALSE,
     holding_executor |-> "None",
     holding |-> FALSE,
     gpu_snapshot_queue |-> <<>>,
     inspect_stop_signal |-> FALSE,
     inspect_executor |-> "test",
     referenced |-> TRUE]

\* deque.append on a deque with maxlen: the oldest entry is evicted.
DequeAppend(q, x, maxlen) ==
    IF Len(q) >= maxlen THEN Tail(q) \o <<x>> ELSE Append(q, x)

RECURSIVE SeqMax(_)
SeqMax(q) ==
    IF Len(q) = 1 THEN q[1]
    ELSE LET m == SeqMax(Tail(q)) IN IF q[1] > m THEN q[1] ELSE m

\* get_history_metric("used_mem", "max")
get_history_metric(c) == SeqMax(c.gpu_snapshot_queue)

\* is_history_full that only asks for some history.
is_history_full_NonEmpty(c) == Len(c.gpu_snapshot_queue) >= 1

\* is_history_full
is_history_full(c) == Len(c.gpu_snapshot_queue) = QueueMaxlen(c.config)

\* reset_history
reset_history(c) == [c EXCEPT !.gpu_snapshot_queue = <<>>]

\* start_holding that forgets `self.holding = True`.
start_holding_NoFlag(c) ==
    [c EXCEPT !.holding_executor = "first",
              !.stop_signal = FALSE]

\* start_holding, past its "already running" check.
start_holding(c) ==
    [c EXCEPT !.holding_executor = "first",
              !.stop_signal = FALSE,
              !.holding = TRUE]

\* stop_holding, first half: request the stop (then join).
stop_holding_request(c) == [c EXCEPT !.stop_signal = TRUE]

\* stop_holding, second half: after the join returned.
stop_holding_joined(c) ==
    [c EXCEPT !.holding_executor = "None", !.holding = FALSE]

\* Thread.join() returns once the thread has ended.
HoldThreadEnded(c) == c.holding_executor \in {"raised", "finished"}
HoldThreadAlive(c) == c.holding_executor \in {"first", "run"}
SamplerAlive(c) == c.inspect_executor # "exited"

\* _validate_controller_start_condition without `not controller.holding`.
validate_controller_start_condition_NoHolding(c, mgr_cfg) ==
    /\ is_history_full(c)
    /\ get_history_metric(c) < mem_threshold(mgr_cfg)

\* _validate_controller_start_condition (reads the manager's config)
validate_controller_start_condition(c, mgr_cfg) ==
    /\ is_history_full(c)
    /\ ~c.holding
    /\ get_history_metric(c) < mem_threshold(mgr_cfg)

\* ----------------------------------------------------------- objects
ListedControllers == {gpu_controllers[i] : i \in DOMAIN gpu_controllers}
AllControllers == ListedControllers \cup discarded

HasLiveThread(c) == SamplerAlive(c) \/ HoldThreadAlive(c)

\* An object the manager dropped: only its own threads still reach it.  Its
\* history is not kept: nothing reads it any more.
Dropped(c) == [c EXCEPT !.referenced = FALSE, !.gpu_snapshot_queue = <<>>]

\* Dropped objects whose threads have all ended are garbage.
Collect(S) == {c \in S : HasLiveThread(c)}

\* Write back object c as nc.
Put(c, nc) ==
    IF c.referenced
    THEN /\ gpu_controllers' = [gpu_controllers EXCEPT ![c.id + 1] = nc]
         /\ UNCHANGED discarded
    ELSE /\ discarded' = Collect((discarded \ {c}) \cup {Dropped(nc)})
         /\ UNCHANGED gpu_controllers

\* The process ends when listen_signal returns or raises (the threads are
\* daemon threads).
ProcessAlive == lpc \notin {"returned", "raised"}

\* ------------------------------------------------------------- Init
NoRequest == [decodable |-> TRUE, signal |-> "GREETING", config |-> "None"]
NoResponse == [signal |-> "none", error |-> NoError]

Requests ==
    {[decodable |-> TRUE, signal |-> s, config |-> c] :
        s \in {"START", "RESTART"}, c \in Configs \cup {"None"}}
    \cup {[decodable |-> TRUE, signal |-> s, config |-> "None"] :
            s \in {"STOP", "SHUTDOWN", "GREETING"}}
    \cup {[decodable |-> FALSE, signal |-> "GREETING", config |-> "None"]}

\* Nothing of the other components is running.
NoHold == [pc |-> "off"]
NoWire == [pc |-> "off"]
NoLife == [pc |-> "off"]
NoHistory == [pc |-> "off"]

\* The manager as constructed by GPUGroupManager(ControllerConfig()).
ManagerInit ==
    /\ lpc = "loop"
    /\ run = TRUE
    /\ socket_data = NoRequest
    /\ error = NoError
    /\ conn = "none"
    /\ response = NoResponse
    /\ served = 0
    /\ socket_open = TRUE
    /\ address_exists = TRUE
    /\ config = "default"
    /\ running_signal = FALSE
    /\ running_thread = "None"
    /\ loop_index = 0
    /\ gpu_controllers = <<>>
    /\ discarded = {}

\* GPUGroupManager(ControllerConfig()) constructed, listen_signal entered.
Init ==
    /\ ManagerInit
    /\ hold = NoHold
    /\ wire = NoWire
    /\ life = NoLife
    /\ history = NoHistory

\* ------------------------------------------------- sampler (inspect)
\* `while not self.inspect_stop_signal`
InspectTest ==
    \E c \in AllControllers :
        /\ ProcessAlive
        /\ c.inspect_executor = "test"
        /\ Put(c, [c EXCEPT !.inspect_executor =
                     IF c.inspect_stop_signal THEN "exited" ELSE "body"])
        /\ UNCHANGED <<side_vars, listener_vars, address_exists, config,
                       running_signal,
                       running_thread, loop_index>>

\* one snapshot appended under the lock, then sleep(1)
inspect_body(c, used_mem) ==
    [c EXCEPT !.gpu_snapshot_queue =
                 DequeAppend(c.gpu_snapshot_queue, used_mem,
                             QueueMaxlen(c.config)),
              !.inspect_executor = "test"]

InspectSample ==
    \E c \in AllControllers, used_mem \in 0..MaxUsedMem :
        /\ ProcessAlive
        /\ c.inspect_executor = "body"
        /\ Put(c, inspect_body(c, used_mem))
        /\ UNCHANGED <<side_vars, listener_vars, address_exists, config,
                       running_signal,
                       running_thread, loop_index>>

\* --------------------------------------------------------- hold thread
\* The loop test before the first iteration, and the first iteration: the
\* footprint precondition either holds (holder allocated) or raises.
HoldFirst ==
    \E c \in AllControllers, fits \in BOOLEAN :
        /\ ProcessAlive
        /\ c.holding_executor = "first"
        /\ Put(c, [c EXCEPT !.holding_executor =
                     IF c.stop_signal THEN "finished"
                     ELSE IF fits THEN "run" ELSE "raised"])
        /\ UNCHANGED <<side_vars, listener_vars, address_exists, config,
                       running_signal,
                       running_thread, loop_index>>

\* A later loop test that sees the stop flag: release and end.
HoldObserveStop ==
    \E c \in AllControllers :
        /\ ProcessAlive
        /\ c.holding_executor = "run"
        /\ c.stop_signal
        /\ Put(c, [c EXCEPT !.holding_executor = "finished"])
        /\ UNCHANGED <<side_vars, listener_vars, address_exists, config,
                       running_signal,
                       running_thread, loop_index>>

\* ------------------------------------------- _controllers_loop thread
\* `for controller in self.gpu_controllers: controller.reset_history()`
LoopReset ==
    /\ ProcessAlive
    /\ running_thread = "reset"
    /\ gpu_controllers' =
          [i \in DOMAIN gpu_controllers |-> reset_history(gpu_controllers[i])]
    /\ running_thread' = "test"
    /\ UNCHANGED <<side_vars, listener_vars, address_exists, config,
                       running_signal,
                   loop_index, discarded>>

\* `while self.running_signal.is_set()`
LoopTest ==
    /\ ProcessAlive
    /\ running_thread = "test"
    /\ running_thread' = IF running_signal THEN "iter" ELSE "stopping"
    /\ loop_index' = 1
    /\ UNCHANGED <<side_vars, listener_vars, address_exists, config,
                       running_signal,
                   gpu_controllers, discarded>>

\* One controller of the for loop in the while body; after the last one,
\* sleep(1) and back to the loop test.  start_holding raises when a hold
\* thread object is already there: the exception ends the thread.
LoopIter ==
    /\ ProcessAlive
    /\ running_thread = "iter"
    /\ LET c == gpu_controllers[loop_index]
           start == validate_controller_start_condition(c, config)
           raises == start /\ c.holding_executor # "None"
       IN /\ gpu_controllers' =
                IF start /\ ~raises
                THEN [gpu_controllers EXCEPT ![loop_index] = start_holding(c)]
                ELSE gpu_controllers
          /\ running_thread' =
                IF raises THEN "raised"
                ELSE IF loop_index = Len(gpu_controllers) THEN "test"
                ELSE "iter"
          /\ loop_index' = loop_index + 1
    /\ UNCHANGED <<side_vars, listener_vars, address_exists, config,
                       running_signal,
                   discarded>>

\* The controller's turn in the final for loop is over: the sampler is told
\* to stop (a flag; the sampler thread is not joined).
stop_sampler(c) == [c EXCEPT !.inspect_stop_signal = TRUE]

\* LoopStop without the stop_holding call: only the sampler flag is set.
LoopStop_NoStopHolding ==
    /\ ProcessAlive
    /\ running_thread = "stopping"
    /\ gpu_controllers' =
          [gpu_controllers EXCEPT ![loop_index] =
              stop_sampler(gpu_controllers[loop_index])]
    /\ running_thread' =
          IF loop_index = Len(gpu_controllers) THEN "done" ELSE "stopping"
    /\ loop_index' = loop_index + 1
    /\ UNCHANGED <<side_vars, listener_vars, address_exists, config,
                       running_signal,
                   discarded>>

\* One controller of the final for loop: a holding controller is asked to
\* stop (the join follows), any other one has its sampler flag set.
LoopStop ==
    /\ ProcessAlive
    /\ running_thread = "stopping"
    /\ LET c == gpu_controllers[loop_index]
           raises == c.holding /\ c.holding_executor = "None"
       IN /\ gpu_controllers' =
                [gpu_controllers EXCEPT ![loop_index] =
                    IF raises THEN c
                    ELSE IF c.holding THEN stop_holding_request(c)
                    ELSE stop_sampler(c)]
          /\ running_thread' =
                IF raises THEN "raised"
                ELSE IF c.holding THEN "joining"
                ELSE IF loop_index = Len(gpu_controllers) THEN "done"
                ELSE "stopping"
          /\ loop_index' = IF c.holding THEN loop_index ELSE loop_index + 1
    /\ UNCHANGED <<side_vars, listener_vars, address_exists, config,
                       running_signal,
                   discarded>>

\* `self.holding_executor.join()` returned: the rest of stop_holding, then
\* the sampler flag.
LoopJoined ==
    /\ ProcessAlive
    /\ running_thread = "joining"
    /\ HoldThreadEnded(gpu_controllers[loop_index])
    /\ gpu_controllers' =
          [gpu_controllers EXCEPT ![loop_index] =
              stop_sampler(stop_holding_joined(gpu_controllers[loop_index]))]
    /\ running_thread' =
          IF loop_index = Len(gpu_controllers) THEN "done" ELSE "stopping"
    /\ loop_index' = loop_index + 1
    /\ UNCHANGED <<side_vars, listener_vars, address_exists, config,
                       running_signal,
                   discarded>>

\* ------------------------------------------------------ listen_signal
thread_vars == <<running_thread, loop_index, gpu_controllers, discarded>>

\* `conn, _ = self.socket.accept()` timed out: `continue`.
AcceptTimeout ==
    /\ lpc = "loop" /\ run /\ address_exists
    /\ UNCHANGED vars

\* A client connected and sent its frame.
Accept ==
    \E req \in Requests :
        /\ lpc = "loop" /\ run /\ address_exists
        /\ served < MaxRequests
        /\ served' = served + 1
        /\ conn' = "open"
        /\ socket_data' = req
        /\ response' = NoResponse
        /\ error' = NoError
        /\ lpc' = "recv"
        /\ UNCHANGED <<side_vars, run, socket_open, address_exists, manager_vars>>

\* recv_socket_data(conn) inside `with conn:`: pickle.loads raises on bytes
\* that are no pickled SocketData; the with block closes conn and the
\* exception leaves listen_signal.
Recv ==
    /\ lpc = "recv"
    /\ IF socket_data.decodable
       THEN lpc' = "dispatch" /\ UNCHANGED conn
       ELSE lpc' = "raised" /\ conn' = "closed"
    /\ UNCHANGED <<side_vars, run, socket_data, error, response, served, socket_open,
                   address_exists, manager_vars>>

\* stop_controllers up to its join.
stop_controllers_enter ==
    IF running_thread = "None"
    THEN /\ error' = StrOf("Controllers are not running. Please start them first.")
         /\ lpc' = "respond"
         /\ UNCHANGED running_signal
    ELSE /\ running_signal' = FALSE
         /\ lpc' = "join"
         /\ UNCHANGED error

\* The list comprehension of reset_controllers, then start_controllers.
\* cfg is self.config, rt is self.running_thread at that point.
create_and_start(cfg, rt) ==
    /\ gpu_controllers' = [i \in 1..NumDevices |-> GPUController(i - 1, cfg)]
    /\ discarded' = Collect(discarded \cup {Dropped(c) : c \in ListedControllers})
    /\ IF rt # "None"
       THEN /\ error' = StrOf("Controllers are already running. Please stop them first.")
            /\ running_thread' = rt
            /\ UNCHANGED <<running_signal, loop_index>>
       ELSE /\ running_signal' = TRUE
            /\ running_thread' = "reset"
            /\ loop_index' = 0
            /\ UNCHANGED error
    /\ lpc' = "respond"

\* case Signal.START, up to the join inside reset_controllers (if any).
StartCase ==
    /\ config' = update_config(config, socket_data.config)
    /\ IF running_signal
       THEN stop_controllers_enter /\ UNCHANGED thread_vars
       ELSE create_and_start(config', running_thread)
    /\ UNCHANGED <<side_vars, run, socket_data, conn, response, served, socket_open,
                   address_exists>>

\* RESTART that forgets update_config.
RestartCase_NoUpdate ==
    /\ config' = config
    /\ IF running_signal
       THEN stop_controllers_enter /\ UNCHANGED thread_vars
       ELSE create_and_start(config', running_thread)
    /\ UNCHANGED <<side_vars, run, socket_data, conn, response, served, socket_open,
                   address_exists>>

\* case Signal.RESTART, up to the join inside reset_controllers (if any).
RestartCase ==
    /\ config' = update_config(config, socket_data.config)
    /\ IF running_signal
       THEN stop_controllers_enter /\ UNCHANGED thread_vars
       ELSE create_and_start(config', running_thread)
    /\ UNCHANGED <<side_vars, run, socket_data, conn, response, served, socket_open,
                   address_exists>>

\* case Signal.STOP
StopCase ==
    /\ stop_controllers_enter
    /\ UNCHANGED <<side_vars, run, socket_data, conn, response, served, socket_open,
                   address_exists, config, thread_vars>>

\* SHUTDOWN that leaves the loop without stopping the controllers.
ShutdownCase_NoStop ==
    /\ run' = FALSE /\ lpc' = "respond"
    /\ UNCHANGED <<error, running_signal>>
    /\ UNCHANGED <<side_vars, socket_data, conn, response, served, socket_open,
                   address_exists, config, thread_vars>>

\* case Signal.SHUTDOWN
ShutdownCase ==
    /\ IF running_thread # "None"
       THEN stop_controllers_enter /\ UNCHANGED run
       ELSE run' = FALSE /\ lpc' = "respond" /\ UNCHANGED <<error, running_signal>>
    /\ UNCHANGED <<side_vars, socket_data, conn, response, served, socket_open,
                   address_exists, config, thread_vars>>

\* GREETING falling through to the STOP handler.
GreetingCase_AsStop ==
    /\ stop_controllers_enter
    /\ UNCHANGED <<side_vars, run, socket_data, conn, response, served, socket_open,
                   address_exists, config, thread_vars>>

\* case Signal.GREETING: pass
GreetingCase ==
    /\ lpc' = "respond"
    /\ UNCHANGED <<side_vars, run, socket_data, error, conn, response, served,
                   socket_open, address_exists, manager_vars>>

DispatchStart ==
    lpc = "dispatch" /\ socket_data.signal = "START" /\ StartCase
DispatchRestart ==
    lpc = "dispatch" /\ socket_data.signal = "RESTART" /\ RestartCase
DispatchStop ==
    lpc = "dispatch" /\ socket_data.signal = "STOP" /\ StopCase
DispatchShutdown ==
    lpc = "dispatch" /\ socket_data.signal = "SHUTDOWN" /\ ShutdownCase
DispatchGreeting ==
    lpc = "dispatch" /\ socket_data.signal = "GREETING" /\ GreetingCase

\* `self.running_thread.join()` returned.
Joined == lpc = "join" /\ running_thread \in {"done", "raised"}

\* START after the join: rest of stop_controllers and reset_controllers,
\* then start_controllers.
StartResume ==
    /\ create_and_start(config, "None")
    /\ UNCHANGED <<side_vars, run, socket_data, conn, response, served, socket_open,
                   address_exists, config>>

\* RESTART after the join.
RestartResume ==
    /\ create_and_start(config, "None")
    /\ UNCHANGED <<side_vars, run, socket_data, conn, response, served, socket_open,
                   address_exists, config>>

\* STOP after the join that leaves running_thread as it is.
StopResume_KeepThread ==
    /\ lpc' = "respond"
    /\ UNCHANGED <<side_vars, run, socket_data, error, conn, response, served,
                   socket_open, address_exists, config, running_signal,
                   running_thread, loop_index, gpu_controllers, discarded>>

\* STOP after the join: `self.running_thread = None`.
StopResume ==
    /\ running_thread' = "None"
    /\ lpc' = "respond"
    /\ UNCHANGED <<side_vars, run, socket_data, error, conn, response, served,
                   socket_open, address_exists, config, running_signal,
                   loop_index, gpu_controllers, discarded>>

\* SHUTDOWN after the join: `self.running_thread = None`, `run = False`.
ShutdownResume ==
    /\ running_thread' = "None"
    /\ run' = FALSE
    /\ lpc' = "respond"
    /\ UNCHANGED <<side_vars, socket_data, error, conn, response, served, socket_open,
                   address_exists, config, running_signal, loop_index,
                   gpu_controllers, discarded>>

JoinedStart == Joined /\ socket_data.signal = "START" /\ StartResume
JoinedRestart == Joined /\ socket_data.signal = "RESTART" /\ RestartResume
JoinedStop == Joined /\ socket_data.signal = "STOP" /\ StopResume
JoinedShutdown == Joined /\ socket_data.signal = "SHUTDOWN" /\ ShutdownResume

\* `send_socket_data(conn, SocketData(signal=Signal.GREETING, error=error))`,
\* still inside `with conn:` and outside the try: a rejected SocketData
\* raises out of listen_signal, the with block closing conn on the way.
\* The client is the one of exchange_socket_data: it stays connected until
\* the response arrives, so the send itself succeeds.
Respond ==
    /\ lpc = "respond"
    /\ IF SocketDataValid(error)
       THEN /\ response' = [signal |-> "GREETING", error |-> error]
            /\ lpc' = "loop"
       ELSE /\ lpc' = "raised"
            /\ UNCHANGED response
    /\ conn' = "closed"
    /\ UNCHANGED <<side_vars, run, socket_data, error, served, socket_open,
                   address_exists, manager_vars>>

\* The while condition is false: `self.socket.close()`, then
\* `os.remove(self.server_address)`, which raises on a missing file.
LoopExit ==
    /\ lpc = "loop"
    /\ ~(run /\ address_exists)
    /\ socket_open' = FALSE
    /\ address_exists' = FALSE
    /\ lpc' = IF address_exists THEN "returned" ELSE "raised"
    /\ UNCHANGED <<side_vars, run, socket_data, error, conn, response, served,
                   manager_vars>>

\* Something outside the process removes the socket file.
AddressVanishes ==
    /\ ProcessAlive
    /\ address_exists
    /\ address_exists' = FALSE
    /\ UNCHANGED <<side_vars, listener_vars, manager_vars>>

Next ==
    \/ AcceptTimeout \/ Accept \/ Recv
    \/ DispatchStart \/ DispatchRestart \/ DispatchStop
    \/ DispatchShutdown \/ DispatchGreeting
    \/ JoinedStart \/ JoinedRestart \/ JoinedStop \/ JoinedShutdown
    \/ Respond \/ LoopExit \/ AddressVanishes
    \/ LoopReset \/ LoopTest \/ LoopIter \/ LoopStop \/ LoopJoined
    \/ InspectTest \/ InspectSample \/ HoldFirst \/ HoldObserveStop

Spec == Init /\ [][Next]_vars

\* =============================================================== claims
Handling(sig) == socket_data.decodable /\ socket_data.signal = sig
Answered == [signal |-> "GREETING", error |-> error]

\* C1: whenever a handler raised during dispatch (error is set), then once
\* the connection is finished a response with signal=GREETING carrying that
\* error has been sent and listen_signal has not ended by an exception.
C1_DispatchErrorAnswered ==
    (error # NoError /\ conn = "closed")
        => (response = Answered /\ lpc # "raised")

\* C2: an accepted connection whose request cannot be decoded is closed and
\* the listener loop keeps running (listen_signal does not end by the
\* decoding exception).
C2_UndecodableConfined ==
    (~socket_data.decodable /\ lpc # "recv")
        => (conn = "closed" /\ lpc # "raised")

\* C3: no controller that the manager has replaced by a new set still has a
\* running hold loop: the hold loops of the previous set have all been
\* joined when the new set is constructed, so an old and a new hold loop
\* never run on the same device.
C3_NoOldHoldLoop ==
    /\ \A c \in discarded : ~HoldThreadAlive(c)
    /\ \A c \in discarded : \A n \in ListedControllers :
          ~(c.id = n.id /\ HoldThreadAlive(c) /\ HoldThreadAlive(n))

\* C3 witness: a new set exists while an object of the previous set, whose
\* hold loop was stopped and joined, is still remembered by its sampler.
C3_Witness ==
    /\ gpu_controllers # <<>>
    /\ \E c \in discarded : c.stop_signal /\ c.holding_executor = "None"

\* C4: when a new controller set is created, no sampler thread of the
\* previous set is still running.
C4_SamplersJoined == \A c \in discarded : ~SamplerAlive(c)

\* C5: once SHUTDOWN has been handled, no controller is holding, a response
\* has been sent and the loop condition is false; and when listen_signal has
\* ended, the listening socket is closed and the channel address is gone.
C5_ShutdownStopsAll ==
    (Handling("SHUTDOWN") /\ lpc \in {"loop", "returned", "raised"})
        => /\ \A c \in AllControllers : ~c.holding /\ ~HoldThreadAlive(c)
           /\ response = [signal |-> "GREETING", error |-> NoError]
           /\ ~run
           /\ (lpc # "loop" => ~socket_open /\ ~address_exists)

\* C5 witness: START then SHUTDOWN, the controller's hold loop was stopped by
\* the SHUTDOWN, and listen_signal has returned.
C5_Witness ==
    /\ Handling("SHUTDOWN") /\ lpc = "returned" /\ served = 2
    /\ \E c \in ListedControllers : c.stop_signal /\ ~c.holding

\* The listener takes a step.
ListenerStep == lpc' # lpc

\* C6: a STOP handled while the controllers loop runs ends with no hold loop
\* running and no controller holding, never changes the config, and is
\* answered without error with the listener back at its accept loop; a later
\* START or RESTART without a config keeps the config, and the controllers
\* it creates are built with that kept config.
StopHandled == Handling("STOP") /\ lpc = "respond" /\ error = NoError
StartWithoutConfig ==
    socket_data.signal \in {"START", "RESTART"} /\ socket_data.config = "None"
BuildsNewSet == lpc \in {"dispatch", "join"} /\ lpc' = "respond"
ListedAfter == {gpu_controllers'[i] : i \in DOMAIN gpu_controllers'}
C6_StopKeepsConfigAndListener ==
    /\ [](StopHandled =>
            (run /\ \A c \in AllControllers : ~c.holding /\ ~HoldThreadAlive(c)))
    /\ [][(Handling("STOP") /\ lpc \in {"dispatch", "join", "respond"})
            => config' = config]_vars
    /\ [][(StopHandled /\ ListenerStep)
            => (lpc' = "loop" /\ run' /\ response' = Answered)]_vars
    /\ [][(lpc = "dispatch" /\ StartWithoutConfig /\ ListenerStep)
            => config' = config]_vars
    /\ [][(BuildsNewSet /\ StartWithoutConfig)
            => (\A c \in ListedAfter : c.config = config)]_vars

\* C6 witness: a STOP has stopped a controller that was holding, under a
\* config that a START had installed, and is about to be answered.
C6_Witness ==
    /\ Handling("STOP") /\ lpc = "respond" /\ error = NoError
    /\ config = "alt"
    /\ \E c \in ListedControllers : c.stop_signal /\ ~c.holding

\* C7: a STOP signal is never answered with an error, also when the
\* controllers are already stopped or were never started.
C7_StopIdempotent ==
    (Handling("STOP") /\ lpc = "respond") => error = NoError

\* C8: handling GREETING changes nothing of the manager (controller set,
\* holding states, config, running flag and thread) and leaves error absent;
\* its response carries no error.
C8_GreetingChangesNothing ==
    /\ [][(Handling("GREETING") /\ lpc = "dispatch" /\ ListenerStep)
            => (UNCHANGED <<manager_vars, run>> /\ error' = NoError)]_vars
    /\ [][(Handling("GREETING") /\ lpc = "respond" /\ ListenerStep)
            => (/\ UNCHANGED <<manager_vars, run>>
                /\ response' = [signal |-> "GREETING", error |-> NoError]
                /\ lpc' = "loop")]_vars

\* C8 witness: GREETING answered while a controller is holding.
C8_Witness ==
    /\ Handling("GREETING") /\ lpc = "loop" /\ response.signal = "GREETING"
    /\ \E c \in ListedControllers : c.holding /\ c.holding_executor = "run"

\* The set a START/RESTART leaves: one fresh controller per device, built
\* with cfg, empty history, sampler started, not holding.
FreshSet(list, cfg) ==
    /\ DOMAIN list = 1..NumDevices
    /\ \A i \in 1..NumDevices :
          /\ list[i].id = i - 1
          /\ list[i].config = cfg
          /\ list[i].gpu_snapshot_queue = <<>>
          /\ list[i].inspect_executor = "test"
          /\ ~list[i].inspect_stop_signal
          /\ ~list[i].holding /\ list[i].holding_executor = "None"

\* C9: every step of RESTART handling is the step START handling takes from
\* the same state and conversely; the config is replaced exactly when the
\* request carries one; and the step that builds the new set happens with
\* every old controller stopped, replaces them all by one fresh controller
\* per device, and starts the controllers loop without error.
StartOrRestart == socket_data.signal \in {"START", "RESTART"}
C9_RestartIsStart ==
    /\ [][(lpc = "dispatch" /\ Handling("RESTART") /\ ListenerStep)
            => StartCase]_vars
    /\ [][(lpc = "dispatch" /\ Handling("START") /\ ListenerStep)
            => RestartCase]_vars
    /\ [][(lpc = "join" /\ Handling("RESTART") /\ ListenerStep)
            => StartResume]_vars
    /\ [][(lpc = "join" /\ Handling("START") /\ ListenerStep)
            => RestartResume]_vars
    /\ [][(lpc = "dispatch" /\ StartOrRestart /\ ListenerStep)
            => config' = (IF socket_data.config = "None" THEN config
                          ELSE socket_data.config)]_vars
    /\ [][(BuildsNewSet /\ StartOrRestart)
            => (/\ \A c \in ListedControllers :
                      ~c.holding /\ ~HoldThreadAlive(c)
                /\ FreshSet(gpu_controllers', config')
                /\ running_signal' /\ running_thread' = "reset"
                /\ error' = NoError)]_vars

\* C9 witness: a RESTART carrying a config has replaced a set whose
\* controller had been holding.
C9_Witness ==
    /\ Handling("RESTART") /\ lpc = "respond" /\ error = NoError
    /\ socket_data.config = "alt" /\ config = "alt"
    /\ \E c \in discarded : c.stop_signal /\ c.config = "default"

\* C10: a controller's history never exceeds its window N; the idle
\* predicate is false while fewer than N samples are buffered and, with N
\* buffered, true exactly when the controller is not holding and every
\* buffered used_mem is below mem_threshold; and a controller only starts
\* holding from a state with N samples, all below mem_threshold.
AllBelow(q, thr) == \A k \in 1..Len(q) : q[k] < thr
IdleGate(c) ==
    LET q == c.gpu_snapshot_queue
        N == QueueMaxlen(c.config)
        idle == validate_controller_start_condition(c, config)
    IN /\ Len(q) <= N
       /\ (Len(q) < N => ~idle)
       /\ (Len(q) = N =>
             (idle <=> (~c.holding /\ AllBelow(q, mem_threshold(config)))))
StartsHolding(i) ==
    /\ i \in DOMAIN gpu_controllers'
    /\ ~gpu_controllers[i].holding
    /\ gpu_controllers'[i].holding
C10_IdleGate ==
    /\ [](\A c \in ListedControllers : IdleGate(c))
    /\ [][\A i \in DOMAIN gpu_controllers :
            StartsHolding(i) =>
              (/\ Len(gpu_controllers[i].gpu_snapshot_queue)
                    = QueueMaxlen(gpu_controllers[i].config)
               /\ AllBelow(gpu_controllers[i].gpu_snapshot_queue,
                           mem_threshold(config)))]_vars

\* C10 witness: a controller with the largest window holds, its history
\* full.
C10_Witness ==
    \E c \in ListedControllers :
        /\ c.holding
        /\ QueueMaxlen(c.config) = MaxWindow
        /\ Len(c.gpu_snapshot_queue) = MaxWindow

\* C11: idle detection fires once per controller: a poll that finds the
\* predicate true starts the hold thread; a hold thread is only ever started
\* on a controller that is not holding and has no hold thread; while the
\* controller is holding the predicate is false, whatever the samples; and
\* start_holding never raises "already running" (which would end the
\* controllers loop).
PollStep == running_thread = "iter" /\ loop_index' # loop_index
HoldStarted(i) ==
    /\ i \in DOMAIN gpu_controllers'
    /\ gpu_controllers'[i].holding_executor = "first"
    /\ gpu_controllers[i].holding_executor # "first"
C11_FiresOnce ==
    /\ [](running_thread # "raised")
    /\ [](\A c \in ListedControllers :
            c.holding => (/\ ~validate_controller_start_condition(c, config)
                          /\ c.holding_executor # "None"))
    /\ [][\A i \in DOMAIN gpu_controllers :
            HoldStarted(i) =>
              (/\ ~gpu_controllers[i].holding
               /\ gpu_controllers[i].holding_executor = "None"
               /\ validate_controller_start_condition(gpu_controllers[i],
                                                      config))]_vars
    /\ [][(PollStep /\ validate_controller_start_condition(
                          gpu_controllers[loop_index], config))
            => (/\ gpu_controllers'[loop_index].holding
                /\ gpu_controllers'[loop_index].holding_executor = "first")]_vars

\* C11 witness: the controllers loop polls again (it is back at its loop
\* test) while a controller holds with a full history of idle samples.
C11_Witness ==
    /\ running_thread = "iter"
    /\ LET c == gpu_controllers[loop_index]
       IN /\ c.holding /\ c.holding_executor = "run"
          /\ is_history_full(c)
          /\ AllBelow(c.gpu_snapshot_queue, mem_threshold(config))

\* C17: once the listener loop has ended and the listening socket is closed,
\* the channel address is absent and listen_signal has returned normally.
C17_ListenReturnsNormally ==
    ~socket_open => (lpc = "returned" /\ ~address_exists)

\* ==================================================== GPUController.hold
\* One run of the hold loop with its locals, in `hold`.  Sleep times are
\* counted in units of 1/SleepUnit of a second so that the midpoints of
\* MaxAdjust halvings stay whole; utilization readings are counted in
\* units that make hold_util = 2 and util_eps = 1.

\* Bracket adjustments one run may make.
MaxAdjust == 2
\* Largest util_samples_num.
MaxSamples == 2

SleepUnit == 2 ^ (MaxAdjust + 1)

\* Everything of the manager, which a hold run leaves alone.
mgr_all == <<listener_vars, address_exists, manager_vars>>

\* torch.cuda.utilization readings.
UtilReadings == {0, 2, 4}
hold_util == 2
util_eps == 1

RECURSIVE SeqSum(_)
SeqSum(q) == IF q = <<>> THEN 0 ELSE q[1] + SeqSum(Tail(q))

AbsDiff(a, b) == IF a >= b THEN a - b ELSE b - a

\* AlgorithmConfig as validated by configs.py: max_sleep_time > 0,
\* min_sleep_time >= 0, util_samples_num > 0, and nothing relating the two
\* sleep times.
AlgConfigs ==
    {[max_sleep_time |-> mx * SleepUnit, min_sleep_time |-> mn * SleepUnit,
      util_samples_num |-> n] :
        mx \in 1..2, mn \in 0..2, n \in 1..MaxSamples}

\* `mid_sleep_time = (max_sleep_time + min_sleep_time) / 2`
Midpoint(mx, mn) == (mx + mn) \div 2

\* start_holding has returned and hold() has reached its while loop: operator
\* allocated, locals initialised (`result` is first bound inside the loop).
\* A tensor is "allocated", "cached" once no name refers to it (its memory
\* is back in torch's caching allocator) and "released" once empty_cache has
\* given the memory back to the device.
HoldEntry(alg) ==
    [pc |-> "loop",
     alg_config |-> alg,
     operator |-> "allocated",
     holder |-> "None",
     max_sleep_time |-> alg.max_sleep_time,
     min_sleep_time |-> alg.min_sleep_time,
     mid_sleep_time |-> Midpoint(alg.max_sleep_time, alg.min_sleep_time),
     util_samples |-> <<>>,
     find_target_sleep_time |-> FALSE,
     first |-> TRUE,
     due |-> FALSE,
     stop_signal |-> FALSE,
     cache |-> "used",
     peak_stats |-> "used",
     holding |-> TRUE,
     returned |-> FALSE,
     inspect_stop_signal |-> FALSE,
     inspect_executor |-> "test",
     adjusts |-> 0]

InitHold ==
    /\ ManagerInit
    /\ wire = NoWire
    /\ life = NoLife
    /\ history = NoHistory
    /\ hold \in {HoldEntry(alg) : alg \in AlgConfigs}

HoldRunning == hold.pc = "loop" /\ ~hold.stop_signal

\* stop_holding sets stop_signal (the thread may have ended already).
HoldStopRequested ==
    /\ hold.pc \in {"loop", "raised"} /\ ~hold.stop_signal
    /\ hold' = [hold EXCEPT !.stop_signal = TRUE]
    /\ UNCHANGED <<mgr_all, wire, life, history>>

\* A loop that does not leave on the stop flag.
hold_cleanup_KeepLooping(h) == h

\* The lines after the loop: the tensors are deleted, the cache is emptied
\* and the peak counters reset.
hold_cleanup(h) ==
    [h EXCEPT !.pc = "ended",
              !.operator = "released",
              !.holder = IF @ = "None" THEN "None" ELSE "released",
              !.cache = "emptied",
              !.peak_stats = "reset"]

\* The loop test sees the stop flag.  With no iteration run, `result` is
\* unbound and `if result is not None` raises UnboundLocalError after the
\* two del statements: the rest of the cleanup is skipped.
HoldLoopExit ==
    /\ hold.pc = "loop" /\ hold.stop_signal
    /\ hold' = IF hold.first
               THEN [hold EXCEPT !.pc = "raised", !.operator = "cached"]
               ELSE hold_cleanup(hold)
    /\ UNCHANGED <<mgr_all, wire, life, history>>

\* First iteration: holder_gb = gb - used_gb is negative (ValueError) or the
\* holder is allocated; `tic = time()`.
HoldLoopFirst ==
    \E fits \in BOOLEAN :
        /\ HoldRunning /\ hold.first
        /\ hold' = IF fits
                   THEN [hold EXCEPT !.holder = "allocated", !.first = FALSE,
                                     !.due = FALSE]
                   ELSE [hold EXCEPT !.pc = "raised", !.operator = "cached"]
        /\ UNCHANGED <<mgr_all, wire, life, history>>

\* `self.holding_executor.join()` returned: the rest of stop_holding.
HoldJoined ==
    /\ hold.stop_signal /\ ~hold.returned
    /\ hold.pc \in {"ended", "raised"}
    /\ hold' = [hold EXCEPT !.returned = TRUE, !.holding = FALSE]
    /\ UNCHANGED <<mgr_all, wire, life, history>>

\* `controller.inspect_stop_signal = True`, which _controllers_loop does
\* after stop_holding has returned.
HoldSamplerStop ==
    /\ hold.returned /\ ~hold.inspect_stop_signal
    /\ hold' = [hold EXCEPT !.inspect_stop_signal = TRUE]
    /\ UNCHANGED <<mgr_all, wire, life, history>>

\* The controller's sampler: `while not self.inspect_stop_signal`.
HoldSamplerTest ==
    /\ hold.inspect_executor = "test"
    /\ hold' = [hold EXCEPT !.inspect_executor =
                   IF hold.inspect_stop_signal THEN "exited" ELSE "body"]
    /\ UNCHANGED <<mgr_all, wire, life, history>>

\* One snapshot under the lock, then sleep(1).
HoldSamplerBody ==
    /\ hold.inspect_executor = "body"
    /\ hold' = [hold EXCEPT !.inspect_executor = "test"]
    /\ UNCHANGED <<mgr_all, wire, life, history>>

\* Wall time passes: `toc - tic >= inspect_interval` from now on.
HoldIntervalElapses ==
    /\ HoldRunning /\ ~hold.first /\ ~hold.due
    /\ hold' = [hold EXCEPT !.due = TRUE]
    /\ UNCHANGED <<mgr_all, wire, life, history>>

Measuring == ~hold.first /\ ~hold.find_target_sleep_time /\ hold.due

\* An iteration that only computes and sleeps.
HoldLoopSleep ==
    /\ HoldRunning /\ ~hold.first /\ ~Measuring
    /\ UNCHANGED vars

\* An iteration that takes one utilization sample, sleeps and resets tic.
HoldLoopSample ==
    \E u \in UtilReadings :
        /\ HoldRunning /\ Measuring
        /\ Len(hold.util_samples) < hold.alg_config.util_samples_num
        /\ hold' = [hold EXCEPT !.util_samples = Append(@, u), !.due = FALSE]
        /\ UNCHANGED <<mgr_all, wire, life, history>>

\* `abs(cur_util - util) <= util_eps`, with cur_util = sum / n, both sides
\* multiplied by n.
Converged(samples, n) == AbsDiff(SeqSum(samples), n * hold_util) <= n * util_eps

\* The bracket after a non-converged measurement.
Adjusted(h, samples, n) ==
    LET mx == IF SeqSum(samples) < n * hold_util
              THEN h.mid_sleep_time ELSE h.max_sleep_time
        mn == IF SeqSum(samples) > n * hold_util
              THEN h.mid_sleep_time ELSE h.min_sleep_time
    IN [h EXCEPT !.max_sleep_time = mx,
                 !.min_sleep_time = mn,
                 !.mid_sleep_time = Midpoint(mx, mn),
                 !.util_samples = <<>>,
                 !.due = FALSE,
                 !.adjusts = @ + 1]

\* An iteration with the samples complete: converged, or one bound moves to
\* the midpoint, the midpoint is recomputed and tic reset.
HoldLoopTune ==
    /\ HoldRunning /\ Measuring
    /\ Len(hold.util_samples) >= hold.alg_config.util_samples_num
    /\ LET n == hold.alg_config.util_samples_num
       IN IF Converged(hold.util_samples, n)
          THEN hold' = [hold EXCEPT !.util_samples = <<>>,
                                    !.find_target_sleep_time = TRUE]
          ELSE /\ hold.adjusts < MaxAdjust
               /\ hold' = Adjusted(hold, hold.util_samples, n)
    /\ UNCHANGED <<mgr_all, wire, life, history>>

NextHold ==
    \/ HoldStopRequested \/ HoldLoopExit \/ HoldLoopFirst \/ HoldJoined
    \/ HoldIntervalElapses \/ HoldLoopSleep \/ HoldLoopSample \/ HoldLoopTune
    \/ HoldSamplerStop \/ HoldSamplerTest \/ HoldSamplerBody

SpecHold == InitHold /\ [][NextHold]_vars

\* The same with the hold thread, the sampler thread and the thread inside
\* stop_holding each scheduled again and again.
SpecHoldFair ==
    /\ SpecHold
    /\ WF_vars(HoldLoopExit)
    /\ WF_vars(HoldJoined)
    /\ WF_vars(HoldSamplerTest)
    /\ WF_vars(HoldSamplerBody)

\* C12: in GPUController.hold, after every tuning step
\* min_sleep_time <= mid_sleep_time <= max_sleep_time.
C12_BracketOrdered ==
    (hold.pc # "off" /\ hold.adjusts > 0) =>
        (/\ hold.min_sleep_time <= hold.mid_sleep_time
         /\ hold.mid_sleep_time <= hold.max_sleep_time)

\* ============================================ core.py: framing of SocketData
\* Bytes are small integers.  The bytes of an error text are the only ones
\* the sentinel is made of; the bytes pickle adds around the fields are not.

\* Longest error text.
MaxText == 2

TextBytes == {10, 11}

\* `EOS = b"END_OF_SOCKET_DATA"`, shortened to two text bytes.
EOS == <<10, 11>>

\* The opcode that ends a pickle.
STOP == 5

Texts == UNION {[1..n -> TextBytes] : n \in 0..MaxText}

NoException == [present |-> FALSE, text |-> <<>>]
Exceptions == {NoException} \cup {[present |-> TRUE, text |-> t] : t \in Texts}

\* SocketData: signal, config (None or a ControllerConfig), error.
Messages == [signal : Signal, config : {"None"} \cup Configs, error : Exceptions]

SignalValue(sig) ==
    CASE sig = "START" -> 0
      [] sig = "STOP" -> 1
      [] sig = "RESTART" -> 2
      [] sig = "SHUTDOWN" -> 3
      [] sig = "GREETING" -> 4

SignalOf(b) == CHOOSE sig \in Signal : SignalValue(sig) = b

ConfigValue(cfg) ==
    CASE cfg = "None" -> 0
      [] cfg = "default" -> 1
      [] cfg = "alt" -> 2

ConfigOf(b) == CHOOSE cfg \in {"None"} \cup Configs : ConfigValue(cfg) = b

\* pickle.dumps: the fields in order, the text with its length in front,
\* the STOP opcode last.
pickle_dumps(m) ==
    <<SignalValue(m.signal), ConfigValue(m.config),
      IF m.error.present THEN 1 ELSE 0, Len(m.error.text)>>
    \o m.error.text \o <<STOP>>

Unpicklable == [ok |-> FALSE,
                value |-> [signal |-> "GREETING", config |-> "None",
                           error |-> NoException]]

\* pickle.loads: the message, or a failure on bytes that are no pickle
\* (truncated, wrong opcode).
pickle_loads(b) ==
    IF /\ Len(b) >= 5
       /\ b[1] \in 0..4
       /\ b[2] \in 0..2
       /\ b[3] \in {0, 1}
       /\ Len(b) = 5 + b[4]
       /\ b[3] = 0 => b[4] = 0
       /\ b[Len(b)] = STOP
       /\ \A i \in 5..(Len(b) - 1) : b[i] \in TextBytes
    THEN [ok |-> TRUE,
          value |-> [signal |-> SignalOf(b[1]), config |-> ConfigOf(b[2]),
                     error |-> [present |-> b[3] = 1,
                                text |-> SubSeq(b, 5, Len(b) - 1)]]]
    ELSE Unpicklable

\* An occurrence of the sentinel starts at position i of the buffer.
EOSAt(buf, i) == /\ i + Len(EOS) - 1 <= Len(buf)
                 /\ SubSeq(buf, i, i + Len(EOS) - 1) = EOS

\* `EOS in bytes_buffer`
ContainsEOS(buf) == \E i \in 1..Len(buf) : EOSAt(buf, i)

\* `bytes_buffer.split(EOS)[0]`
SplitFirst(buf) ==
    IF ContainsEOS(buf)
    THEN LET i == CHOOSE k \in 1..Len(buf) :
                      EOSAt(buf, k) /\ \A j \in 1..(k - 1) : ~EOSAt(buf, j)
         IN SubSeq(buf, 1, i - 1)
    ELSE buf

\* What send_socket_data hands to conn.send.
Frame(m) == pickle_dumps(m) \o EOS

\* ====================================== utils.py: exchange_socket_data
\* One call of exchange_socket_data(data, timeout), in `wire`: the three
\* operations connect, send and receive, each inside socket_timeout, with the
\* peer's bytes still on their way in `stream`.

SOCKET_TIMEOUT == 5

\* `timeout=None`
NoTimeout == -1

Timeouts == {NoTimeout, 0, SOCKET_TIMEOUT}

\* `if timeout:`
Truthy(t) == t # NoTimeout /\ t # 0

ClientRequests ==
    {[signal |-> "GREETING", config |-> "None", error |-> NoException],
     [signal |-> "START", config |-> "default", error |-> NoException]}

\* After `socket, addr = get_socket()`.
WireEntry(data, timeout) ==
    [pc |-> "enter", op |-> "connect",
     data |-> data, timeout |-> timeout,
     sock |-> "open", conn_timeout |-> NoTimeout, calls |-> <<>>,
     connects |-> 0, sent |-> <<>>,
     answer |-> data, peer_sent |-> 0, stream |-> <<>>,
     peer_closes |-> FALSE,
     bytes_buffer |-> <<>>, decoded |-> "none", result |-> data,
     exception |-> "None"]

InitWire ==
    /\ ManagerInit
    /\ hold = NoHold
    /\ life = NoLife
    /\ history = NoHistory
    /\ wire \in {WireEntry(d, t) : d \in ClientRequests, t \in Timeouts}

WireAt(op, pc) == wire.pc = pc /\ wire.op = op

\* An exception leaves the with block (nothing after the yield runs), passes
\* `except Exception as e: raise e`, and `finally` closes the socket.
WireRaise_NoClose(w, exc) == [w EXCEPT !.pc = "raised", !.exception = exc]

WireRaise(w, exc) ==
    [w EXCEPT !.pc = "raised", !.exception = exc, !.sock = "closed"]

\* socket_timeout up to its yield.
socket_timeout_enter(w) ==
    IF Truthy(w.timeout)
    THEN [w EXCEPT !.pc = "body",
                   !.conn_timeout = w.timeout,
                   !.calls = Append(@, w.timeout),
                   !.bytes_buffer = <<>>]
    ELSE [w EXCEPT !.pc = "body", !.bytes_buffer = <<>>]

\* socket_timeout after its yield.
socket_timeout_exit(w) ==
    IF Truthy(w.timeout)
    THEN [w EXCEPT !.conn_timeout = NoTimeout, !.calls = Append(@, NoTimeout)]
    ELSE w

SocketTimeoutEnter ==
    /\ wire.pc = "enter"
    /\ wire' = socket_timeout_enter(wire)
    /\ UNCHANGED <<mgr_all, hold, life, history>>

\* The statement after each with block.
SocketTimeoutExit ==
    /\ wire.pc = "exit"
    /\ wire' = [socket_timeout_exit(wire) EXCEPT
                   !.pc = IF wire.op = "recv" THEN "finally" ELSE "enter",
                   !.op = CASE wire.op = "connect" -> "send"
                            [] wire.op = "send" -> "recv"
                            [] wire.op = "recv" -> "recv"]
    /\ UNCHANGED <<mgr_all, hold, life, history>>

\* `socket.connect(addr)`: connected, or the address is absent or refuses.
ConnectBody ==
    /\ WireAt("connect", "body")
    /\ \E ok \in BOOLEAN :
         wire' = IF ok
                 THEN [wire EXCEPT !.pc = "exit", !.connects = @ + 1]
                 ELSE WireRaise([wire EXCEPT !.connects = @ + 1], "connect")
    /\ UNCHANGED <<mgr_all, hold, life, history>>

\* `conn.send(pickle.dumps(data) + EOS)`: fails, or the request is on its
\* way and the peer does whatever it does: it answers m, all of it or only
\* the first k bytes, and closes its end afterwards or keeps it open.
SendBody ==
    /\ WireAt("send", "body")
    /\ \/ wire' = WireRaise(wire, "send")
       \/ \E m \in Messages, closes \in BOOLEAN :
            \E k \in 0..Len(Frame(m)) :
              wire' = [wire EXCEPT !.pc = "exit",
                                   !.sent = Append(@, Frame(wire.data)),
                                   !.answer = m,
                                   !.peer_sent = k,
                                   !.stream = SubSeq(Frame(m), 1, k),
                                   !.peer_closes = closes]
    /\ UNCHANGED <<mgr_all, hold, life, history>>

\* `data = conn.recv(1024)` returns some of the bytes on their way.
RecvBody ==
    /\ WireAt("recv", "body")
    /\ \E k \in 1..Len(wire.stream) :
         wire' = [wire EXCEPT
                     !.pc = "test",
                     !.bytes_buffer = @ \o SubSeq(wire.stream, 1, k),
                     !.stream = SubSeq(@, k + 1, Len(@))]
    /\ UNCHANGED <<mgr_all, hold, life, history>>

\* conn.recv on a connection the peer has closed returns b"" at once.
RecvEOF ==
    /\ WireAt("recv", "body")
    /\ wire.stream = <<>> /\ wire.peer_closes
    /\ wire' = [wire EXCEPT !.pc = "test"]
    /\ UNCHANGED <<mgr_all, hold, life, history>>

\* conn.recv with a timeout set and no byte arriving in time.
RecvTimeout ==
    /\ WireAt("recv", "body")
    /\ wire.conn_timeout # NoTimeout
    /\ ~(wire.stream = <<>> /\ wire.peer_closes)
    /\ wire' = WireRaise(wire, "timeout")
    /\ UNCHANGED <<mgr_all, hold, life, history>>

\* `if EOS in bytes_buffer: break`
RecvTest ==
    /\ WireAt("recv", "test")
    /\ wire' = [wire EXCEPT
                   !.pc = IF ContainsEOS(wire.bytes_buffer)
                          THEN "decode" ELSE "body"]
    /\ UNCHANGED <<mgr_all, hold, life, history>>

\* `pickle.loads(bytes_buffer.split(EOS)[0])`
RecvDecode ==
    /\ WireAt("recv", "decode")
    /\ LET r == pickle_loads(SplitFirst(wire.bytes_buffer))
       IN wire' = IF r.ok
                  THEN [wire EXCEPT !.pc = "exit", !.decoded = "ok",
                                    !.result = r.value]
                  ELSE WireRaise([wire EXCEPT !.decoded = "failed"],
                                 "unpickle")
    /\ UNCHANGED <<mgr_all, hold, life, history>>

\* `finally: socket.close()` and `return result`.
ExchangeReturn ==
    /\ wire.pc = "finally"
    /\ wire' = [wire EXCEPT !.pc = "returned", !.sock = "closed"]
    /\ UNCHANGED <<mgr_all, hold, life, history>>

NextWire ==
    \/ SocketTimeoutEnter \/ SocketTimeoutExit \/ ConnectBody \/ SendBody
    \/ RecvBody \/ RecvEOF \/ RecvTimeout \/ RecvTest \/ RecvDecode
    \/ ExchangeReturn

SpecWire == InitWire /\ [][NextWire]_vars

\* The same with every enabled step eventually taken.
SpecWireFair == SpecWire /\ WF_vars(NextWire)

\* The peer handed a whole frame to conn.send, as send_socket_data does.
PeerSentFrame == wire.peer_sent = Len(Frame(wire.answer))

\* C13: send_socket_data followed by recv_socket_data returns a message equal
\* to the one sent, whatever its signal, config and error and however the
\* bytes are split into chunks.
C13_RoundTrip ==
    (PeerSentFrame /\ wire.decoded # "none") =>
        (wire.decoded = "ok" /\ wire.result = wire.answer)

\* C14: socket_timeout called with a timeout sets it on the connection for the
\* wrapped operation and restores no timeout when the operation returns;
\* called without a timeout it never calls settimeout.
C14_TimeoutSetAndRestored ==
    /\ (wire.timeout # NoTimeout /\ wire.pc \in {"body", "test", "decode"})
          => wire.conn_timeout = wire.timeout
    /\ wire.pc \in {"enter", "finally", "returned"}
          => wire.conn_timeout = NoTimeout
    /\ wire.timeout = NoTimeout => wire.calls = <<>>

RecvEnded == wire.op = "recv" /\ wire.pc \in {"exit", "finally", "returned", "raised"}

\* C15: recv_socket_data called with a timeout ends, by returning a message
\* or by raising, whatever the peer does.
C15_RecvEnds ==
    (WireAt("recv", "body") /\ wire.conn_timeout = SOCKET_TIMEOUT) ~> RecvEnded

ExchangeEnded == wire.pc \in {"returned", "raised"}

\* C20: exchange_socket_data makes one connection, sends one request, takes
\* one response and has closed the socket on every path that ends (response,
\* failed connect, failed send, receive timeout); a failure reaches the
\* caller and nothing is tried again.
C20_OneExchange ==
    /\ [](wire.connects <= 1 /\ Len(wire.sent) <= 1)
    /\ [](ExchangeEnded => wire.sock = "closed")
    /\ [](~ExchangeEnded => wire.sock = "open")
    /\ [](wire.pc = "returned" =>
            (/\ wire.connects = 1
             /\ wire.sent = <<Frame(wire.data)>>
             /\ wire.decoded = "ok"
             /\ wire.exception = "None"))
    /\ [](wire.pc = "raised" => wire.exception # "None")
    /\ [][ExchangeEnded => wire' = wire]_vars

C20_Witness ==
    /\ wire.pc = "raised" /\ wire.exception = "timeout"
    /\ wire.sock = "closed" /\ wire.connects = 1 /\ Len(wire.sent) = 1

\* ================================ app.py / core.py: the daemon's lifecycle
\* One launch command and one shutdown command, in `life`: the invoking
\* process (parent), the intermediate process (mid) and the final process
\* (fin) of daemonize, the PID file, the channel's address, and the shutdown
\* command's position (sh).

\* `for _ in range(wait_time)` of is_server_dead.
wait_time == 10

\* The statements of daemonize between the first fork and func(), in order.
DetachSteps == <<"chdir", "umask", "setsid", "fork2", "flush", "open", "dup2">>

\* At the call daemonize(_launch_manager, ...): a PID file of an earlier,
\* dead server may be left over, and so may the channel's address.
LifeEntry(stale_pid_file, stale_address) ==
    [pc |-> "on",
     parent |-> "fork1", mid |-> "none", fin |-> "none",
     steps |-> <<>>,
     func_runs |-> 0, func_in |-> {},
     continuation_in |-> {},
     handlers |-> FALSE,
     pid_file |-> IF stale_pid_file THEN "stale" ELSE "absent",
     address |-> IF stale_address THEN "stale" ELSE "absent",
     binds |-> 0, listening |-> FALSE,
     reaped |-> FALSE, kill_pending |-> FALSE,
     sh |-> "idle", i |-> 0, sent |-> <<>>, observed |-> "none"]

InitLife ==
    /\ ManagerInit
    /\ hold = NoHold
    /\ wire = NoWire
    /\ history = NoHistory
    /\ life \in {LifeEntry(s, a) : s \in BOOLEAN, a \in BOOLEAN}

\* The final process exists and has not ended.
FinAlive == life.fin \notin {"none", "raised", "ended", "killed"}

\* The final process has ended and nobody has waited for it.
FinZombie == life.fin \in {"raised", "ended", "killed"} /\ ~life.reaped

\* First `os.fork()`: the parent returns to its caller, the child goes on;
\* or the fork fails and the parent exits with status 1.
Fork1 ==
    /\ life.parent = "fork1"
    /\ \E ok \in BOOLEAN :
         life' = IF ok
                 THEN [life EXCEPT !.parent = "caller", !.mid = "chdir"]
                 ELSE [life EXCEPT !.parent = "exit1"]
    /\ UNCHANGED <<mgr_all, hold, wire, history>>

\* `os.chdir("/")`, `os.umask(0)`, `os.setsid()`, one after the other.
Detach ==
    /\ life.mid \in {"chdir", "umask", "setsid"}
    /\ life' = [life EXCEPT
                   !.steps = Append(@, life.mid),
                   !.mid = DetachSteps[Len(life.steps) + 2]]
    /\ UNCHANGED <<mgr_all, hold, wire, history>>

\* Second `os.fork()`: the intermediate process exits with status 0, the
\* child goes on; or the fork fails and the process exits with status 1.
Fork2 ==
    /\ life.mid = "fork2"
    /\ \E ok \in BOOLEAN :
         life' = IF ok
                 THEN [life EXCEPT !.mid = "exit0", !.fin = "flush",
                                   !.steps = Append(@, "fork2")]
                 ELSE [life EXCEPT !.mid = "exit1"]
    /\ UNCHANGED <<mgr_all, hold, wire, history>>

\* Flush, open the three paths, dup2 them onto stdin, stdout and stderr; an
\* open that fails ends the process before func.
Redirect ==
    /\ life.fin \in {"flush", "open", "dup2"}
    /\ \E ok \in BOOLEAN :
         /\ ~ok => life.fin = "open"
         /\ life' = IF ok
                    THEN [life EXCEPT
                             !.steps = Append(@, life.fin),
                             !.fin = IF life.fin = "dup2" THEN "func"
                                     ELSE DetachSteps[Len(life.steps) + 2]]
                    ELSE [life EXCEPT !.fin = "raised"]
    /\ UNCHANGED <<mgr_all, hold, wire, history>>

\* func run by the process the first fork returned to.
FuncStart_InParent ==
    /\ life.parent = "caller" /\ life.func_runs = 0
    /\ life' = [life EXCEPT !.func_runs = @ + 1,
                            !.func_in = @ \cup {"parent"}]
    /\ UNCHANGED <<mgr_all, hold, wire, history>>

\* `func()`: _launch_manager installs its signal handlers and writes the PID
\* file.
FuncStart ==
    /\ life.fin = "func"
    /\ life' = [life EXCEPT !.fin = "construct",
                            !.func_runs = @ + 1,
                            !.func_in = @ \cup {"fin"},
                            !.handlers = TRUE,
                            !.pid_file = "daemon"]
    /\ UNCHANGED <<mgr_all, hold, wire, history>>

\* launch_socket without the test of the address.
launch_socket_Rebind(l) ==
    [l EXCEPT !.fin = "listen", !.address = "bound", !.binds = @ + 1,
              !.listening = TRUE]

\* GPUGroupManager(ControllerConfig()): launch_socket raises FileExistsError
\* when the address exists, else binds and listens.
launch_socket(l) ==
    IF l.address # "absent"
    THEN [l EXCEPT !.fin = "raised"]
    ELSE [l EXCEPT !.fin = "listen", !.address = "bound", !.binds = @ + 1,
                   !.listening = TRUE]

Construct ==
    /\ life.fin = "construct"
    /\ life' = launch_socket(life)
    /\ UNCHANGED <<mgr_all, hold, wire, history>>

\* listen_signal returns (SHUTDOWN handled, or the address vanished): the
\* socket is closed and the address removed.
listen_returns(l) ==
    [l EXCEPT !.fin = "remove_pid", !.listening = FALSE,
              !.address = "absent"]

AddressGone ==
    /\ life.fin = "listen"
    /\ life' = listen_returns(life)
    /\ UNCHANGED <<mgr_all, hold, wire, history>>

\* `os.remove(PID_PATH)`; func returns, and so does daemonize.
RemovePid ==
    /\ life.fin = "remove_pid"
    /\ life' = IF life.pid_file = "absent"
               THEN [life EXCEPT !.fin = "raised"]
               ELSE [life EXCEPT !.fin = "caller", !.pid_file = "absent"]
    /\ UNCHANGED <<mgr_all, hold, wire, history>>

\* The statements after daemonize(...) in launch: the status polling, in
\* whichever process daemonize returned.
Continuation ==
    /\ \E p \in {"parent", "fin"} :
         /\ life[p] = "caller"
         /\ life' = [life EXCEPT ![p] = "ended",
                                 !.continuation_in = @ \cup {p}]
    /\ UNCHANGED <<mgr_all, hold, wire, history>>

\* Whoever is the ended process's parent waits for it.
Reap ==
    /\ FinZombie
    /\ life' = [life EXCEPT !.reaped = TRUE]
    /\ UNCHANGED <<mgr_all, hold, wire, history>>

\* A SIGKILL delivered to the final process ends it; the address it bound
\* stays behind.
KillTakesEffect ==
    /\ life.kill_pending /\ FinAlive
    /\ life' = [life EXCEPT !.fin = "killed", !.kill_pending = FALSE,
                            !.listening = FALSE]
    /\ UNCHANGED <<mgr_all, hold, wire, history>>

\* `psutil.pid_exists(pid)` for a pid read from the PID file: a left-over
\* file names no process, the daemon's file names the final process.
pid_exists(l, pid) ==
    /\ pid = "daemon"
    /\ l.fin # "none"
    /\ ~l.reaped

\* shutdown up to its try: no PID file, or a PID file naming no process
\* (removed), and the command is over; else on to the graceful request.
ShutdownStart ==
    /\ life.sh = "idle"
    /\ life' = IF life.pid_file = "absent"
               THEN [life EXCEPT !.sh = "not_running"]
               ELSE IF ~pid_exists(life, life.pid_file)
               THEN [life EXCEPT !.sh = "not_running", !.pid_file = "absent"]
               ELSE [life EXCEPT !.sh = "graceful"]
    /\ UNCHANGED <<mgr_all, hold, wire, history>>

\* exchange_socket_data(SocketData(signal=SHUTDOWN)): a listening server
\* handles it and leaves listen_signal, or the exchange fails and the
\* failure is logged; either way the finally block follows.
Graceful ==
    /\ life.sh = "graceful"
    /\ \E handled \in BOOLEAN :
         /\ handled => life.fin = "listen"
         /\ life' = [(IF handled THEN listen_returns(life) ELSE life) EXCEPT
                        !.sh = "dead_open",
                        !.sent = Append(@, "SHUTDOWN")]
    /\ UNCHANGED <<mgr_all, hold, wire, history>>

\* is_server_dead up to its loop: no PID file means dead.
DeadOpen ==
    /\ life.sh = "dead_open"
    /\ life' = IF life.pid_file = "absent"
               THEN [life EXCEPT !.sh = "success", !.observed = "no_pid_file"]
               ELSE [life EXCEPT !.sh = "dead_loop", !.i = 0]
    /\ UNCHANGED <<mgr_all, hold, wire, history>>

\* What shutdown does after is_server_dead returned False.
AfterAlive(sent) == IF Len(sent) < 3 THEN "signal" ELSE "failure"

\* One iteration of is_server_dead's loop: the process is gone or a zombie
\* (the PID file is removed, True is returned, shutdown reports success), or
\* it is alive and the loop goes on, returning False after wait_time rounds.
DeadPoll_AliveOnly(l) ==
    IF l.i + 1 < wait_time
    THEN [l EXCEPT !.i = @ + 1, !.observed = "alive"]
    ELSE [l EXCEPT !.i = 0, !.observed = "alive", !.sh = AfterAlive(l.sent)]

dead_poll(l) ==
    IF ~pid_exists(l, "daemon") \/ l.fin \in {"raised", "ended", "killed"}
    THEN [l EXCEPT !.sh = "success", !.observed = "dead",
                   !.pid_file = "absent", !.i = 0]
    ELSE IF l.i + 1 < wait_time
    THEN [l EXCEPT !.i = @ + 1, !.observed = "alive"]
    ELSE [l EXCEPT !.i = 0, !.observed = "alive", !.sh = AfterAlive(l.sent)]

DeadPoll ==
    /\ life.sh = "dead_loop"
    /\ life' = dead_poll(life)
    /\ UNCHANGED <<mgr_all, hold, wire, history>>

\* The signal shutdown sends next.
NextSignal_KillFirst(sent) == "SIGKILL"

NextSignal(sent) == IF Len(sent) = 1 THEN "SIGTERM" ELSE "SIGKILL"

\* `os.kill(pid, sig)`: ProcessLookupError when the process is gone; SIGTERM
\* runs the handler, which only logs, or ends a process without handler;
\* SIGKILL ends the process.
Kill ==
    /\ life.sh = "signal"
    /\ LET sig == NextSignal(life.sent)
           l == [life EXCEPT !.sh = "dead_open", !.sent = Append(@, sig)]
       IN life' =
            IF ~pid_exists(life, "daemon")
            THEN [life EXCEPT !.sh = "raised"]
            ELSE IF ~FinAlive THEN l
            ELSE IF sig = "SIGKILL" THEN [l EXCEPT !.kill_pending = TRUE]
            ELSE IF life.handlers THEN l
            ELSE [l EXCEPT !.fin = "killed", !.listening = FALSE]
    /\ UNCHANGED <<mgr_all, hold, wire, history>>

NextLife ==
    \/ Fork1 \/ Detach \/ Fork2 \/ Redirect \/ FuncStart \/ Construct
    \/ AddressGone \/ RemovePid \/ Continuation \/ Reap \/ KillTakesEffect
    \/ ShutdownStart \/ Graceful \/ DeadOpen \/ DeadPoll \/ Kill

SpecLife == InitLife /\ [][NextLife]_vars

ConstructStep == life.fin = "construct" /\ life'.fin \in {"raised", "listen"}

FailsFast == /\ life'.fin = "raised"
             /\ life'.address = life.address
             /\ life'.binds = life.binds
             /\ ~life'.listening

BindsAndListens == /\ life'.fin = "listen"
                   /\ life'.address = "bound"
                   /\ life'.binds = life.binds + 1
                   /\ life'.listening

\* C16: constructing the manager while the address exists raises before any
\* bind or listen and leaves the address as it was, and nothing constructs it
\* again; with the address absent the manager binds and listens.
C16_FailFast ==
    /\ [][ConstructStep =>
            IF life.address # "absent" THEN FailsFast ELSE BindsAndListens]_vars
    /\ [](life.binds <= 1 /\ life.func_runs <= 1)
    /\ [](life.listening => life.address = "bound")
    /\ [][life.fin = "raised" => life'.fin = "raised"]_vars

C16_Witness ==
    /\ life.fin = "raised" /\ life.func_runs = 1
    /\ life.address = "stale" /\ life.binds = 0 /\ ~life.listening

IsPrefix(s, t) == Len(s) <= Len(t) /\ s = SubSeq(t, 1, Len(s))

FuncStarts == life'.func_runs > life.func_runs

\* C18: daemonize runs func once and only in the final process, after chdir,
\* umask, setsid, the second fork and the redirection, in that order; the
\* parent of the first fork returns without running func and the
\* intermediate process exits with status 0.
C18_FuncOnceInFinal ==
    /\ [](life.func_runs <= 1 /\ life.func_in \subseteq {"fin"})
    /\ [](IsPrefix(life.steps, DetachSteps))
    /\ [][FuncStarts => (life.fin = "func" /\ life.steps = DetachSteps)]_vars
    /\ [](life.fin # "none" => (life.mid = "exit0" /\ life.parent # "fork1"))
    /\ [](life.fin \in {"construct", "listen", "remove_pid", "caller", "ended"}
            => life.func_runs = 1)

C18_Witness ==
    /\ life.fin = "listen" /\ life.func_runs = 1 /\ life.func_in = {"fin"}
    /\ life.parent = "caller" /\ life.mid = "exit0"

Escalation == <<"SHUTDOWN", "SIGTERM", "SIGKILL">>

ShutdownOver == life.sh \in {"not_running", "success", "failure", "raised"}

Escalates == Len(life'.sent) > Len(life.sent) /\ Len(life.sent) >= 1

PollsDead == /\ life.sh = "dead_loop"
             /\ life'.sh # life.sh \/ life'.i # life.i
             /\ ~FinAlive

StopsWithSuccess == /\ life'.sh = "success"
                    /\ life'.pid_file = "absent"
                    /\ life'.sent = life.sent

\* C19: shutdown sends SHUTDOWN, then SIGTERM, then SIGKILL, each signal only
\* after a liveness check that found the process alive; the first check that
\* finds it gone or a zombie ends the command with success and the PID file
\* removed; failure is reported only with the process alive after SIGKILL.
C19_EscalatesInOrder ==
    /\ [](IsPrefix(life.sent, Escalation))
    /\ [][Escalates => (life.sh = "signal" /\ life.observed = "alive")]_vars
    /\ [][PollsDead => StopsWithSuccess]_vars
    /\ [][(life'.sh = "success" /\ life.sh # "success")
            => life'.pid_file = "absent"]_vars
    /\ [][ShutdownOver => (life'.sh = life.sh /\ life'.sent = life.sent)]_vars
    /\ [](life.sh = "success" => life.observed \in {"dead", "no_pid_file"})
    /\ [](life.sh = "failure" =>
            (life.sent = Escalation /\ life.observed = "alive"))

C19_Witness ==
    /\ life.sh = "success" /\ life.sent = Escalation
    /\ life.observed = "dead" /\ life.pid_file = "absent"

\* ================================= two controllers under one controllers loop
\* A host with two devices after its first START: the controllers loop, the
\* two samplers and the hold threads, and a later request to stop.

\* torch.cuda.device_count() of this host.
PairDevices == 2

InitPair ==
    /\ lpc = "loop"
    /\ run = TRUE
    /\ socket_data = [decodable |-> TRUE, signal |-> "START", config |-> "None"]
    /\ error = NoError
    /\ conn = "closed"
    /\ response = [signal |-> "GREETING", error |-> NoError]
    /\ served = 1
    /\ socket_open = TRUE
    /\ address_exists = TRUE
    /\ config = "default"
    /\ running_signal = TRUE
    /\ running_thread = "reset"
    /\ loop_index = 0
    /\ gpu_controllers = [i \in 1..PairDevices |-> GPUController(i - 1, "default")]
    /\ discarded = {}
    /\ hold = NoHold
    /\ wire = NoWire
    /\ life = NoLife
    /\ history = NoHistory

\* `self.running_signal.clear()` of stop_controllers, as the threads see it.
PairStopRequested ==
    /\ running_signal
    /\ running_signal' = FALSE
    /\ UNCHANGED <<side_vars, listener_vars, address_exists, config,
                   running_thread, loop_index, gpu_controllers, discarded>>

NextPair ==
    \/ LoopReset \/ LoopTest \/ LoopIter \/ LoopStop \/ LoopJoined
    \/ InspectTest \/ InspectSample \/ HoldFirst \/ HoldObserveStop
    \/ PairStopRequested

SpecPair == InitPair /\ [][NextPair]_vars

HoldFails(i) == /\ gpu_controllers[i].holding_executor = "first"
                /\ gpu_controllers'[i].holding_executor = "raised"

OthersUntouched(i) ==
    /\ UNCHANGED <<listener_vars, running_signal, running_thread, loop_index>>
    /\ \A j \in DOMAIN gpu_controllers :
          j # i => gpu_controllers'[j] = gpu_controllers[j]

StaysFailed(i) ==
    gpu_controllers[i].holding_executor = "raised"
        => gpu_controllers'[i].holding_executor \in {"raised", "None"}

\* C21: a hold run that fails its first-iteration precondition ends alone:
\* the listener, the controllers loop and the other controllers are left as
\* they are, the controllers loop never ends by an exception, and the failed
\* controller still reports holding, so idle detection does not start it
\* again.
C21_FailureConfined ==
    /\ [][\A i \in DOMAIN gpu_controllers :
            HoldFails(i) => OthersUntouched(i)]_vars
    /\ [](running_thread # "raised")
    /\ [](\A c \in ListedControllers : c.holding_executor = "raised" =>
            (c.holding /\ ~validate_controller_start_condition(c, config)))
    /\ [][\A i \in DOMAIN gpu_controllers : StaysFailed(i)]_vars

C21_Witness ==
    /\ running_signal /\ running_thread \in {"test", "iter"}
    /\ gpu_controllers[1].holding_executor = "raised"
    /\ gpu_controllers[2].holding_executor = "run"
    /\ gpu_controllers[2].holding

\* C22: when stop_holding returns, the hold loop has exited, the operator and
\* holder of the run are released, the cache is emptied, the peak counters
\* are reset and the controller reports holding = false.
C22_StoppedReleased ==
    (hold.pc # "off" /\ hold.returned) =>
        (/\ hold.pc \in {"ended", "raised"}
         /\ ~hold.holding
         /\ hold.operator = "released"
         /\ hold.holder \in {"None", "released"}
         /\ hold.cache = "emptied"
         /\ hold.peak_stats = "reset")

HoldEnded == hold.pc \in {"ended", "raised"}

LoopLocals(h) == <<h.first, h.due, h.util_samples, h.find_target_sleep_time,
                   h.min_sleep_time, h.mid_sleep_time, h.max_sleep_time>>

StopSeen == (hold.pc = "loop" /\ hold.stop_signal /\ hold'.pc = "loop")
                => LoopLocals(hold') = LoopLocals(hold)

\* C23: once a stop is requested the hold loop runs no further iteration and
\* exits, in whatever phase it was; the sampler exits once its flag is set;
\* stop_holding returns only after the hold loop has exited.
C23_CancellationEnds ==
    /\ hold.stop_signal ~> HoldEnded
    /\ hold.inspect_stop_signal ~> (hold.inspect_executor = "exited")
    /\ hold.stop_signal ~> hold.returned
    /\ [](hold.returned => HoldEnded)
    /\ [][StopSeen]_vars

C23_Witness ==
    /\ hold.pc = "ended" /\ hold.returned
    /\ hold.find_target_sleep_time
    /\ hold.inspect_executor = "exited"

\* =============================== GPUController: the history and its lock
\* One controller's gpu_snapshot_queue and history_queue_lock, in `history`,
\* with the two threads that use them: the sampler (inspect) and the
\* controllers loop calling reset_history, is_history_full and
\* get_history_metric.

\* The device queries of one snapshot: get_mem_used, get_mem_free (which
\* asks for the total and the used memory) and get_util.
SnapshotQueries == <<"get_mem_used", "get_mem_total", "get_mem_used", "get_util">>

HistoryEntry ==
    [pc |-> "on",
     lock |-> "free",
     queue |-> <<>>,
     sampler |-> "acquire", queries |-> 0, reading |-> 0,
     loop_op |-> "reset_history", loop_in |-> FALSE,
     unlocked_accesses |-> 0]

InitHistory ==
    /\ ManagerInit
    /\ hold = NoHold
    /\ wire = NoWire
    /\ life = NoLife
    /\ history = HistoryEntry

\* One access to the queue by thread t: noted when t does not hold the lock.
Accessed(h, t) ==
    [h EXCEPT !.unlocked_accesses = IF h.lock = t THEN @ ELSE 1]

\* inspect: `with self.history_queue_lock:`
SamplerAcquire ==
    /\ history.sampler = "acquire" /\ history.lock = "free"
    /\ history' = [history EXCEPT !.lock = "sampler", !.sampler = "query",
                                  !.queries = 0]
    /\ UNCHANGED <<mgr_all, hold, wire, life>>

\* One device query for the GPUSnapshot being built, inside the with block.
SamplerQuery ==
    /\ history.sampler = "query"
    /\ \E used_mem \in 0..MaxUsedMem :
         history' = [history EXCEPT
                        !.queries = @ + 1,
                        !.reading = IF history.queries = 0
                                    THEN used_mem ELSE @,
                        !.sampler = IF history.queries + 1 = Len(SnapshotQueries)
                                    THEN "append" ELSE "query"]
    /\ UNCHANGED <<mgr_all, hold, wire, life>>

\* `self.gpu_snapshot_queue.append(...)` and the end of the with block.
SamplerAppend ==
    /\ history.sampler = "append"
    /\ history' = [Accessed(history, "sampler") EXCEPT
                      !.queue = DequeAppend(@, history.reading, MaxWindow),
                      !.lock = "free",
                      !.sampler = "sleep"]
    /\ UNCHANGED <<mgr_all, hold, wire, life>>

\* `sleep(1)`
SamplerSleep ==
    /\ history.sampler = "sleep"
    /\ history' = [history EXCEPT !.sampler = "acquire"]
    /\ UNCHANGED <<mgr_all, hold, wire, life>>

\* reset_history, is_history_full, get_history_metric:
\* `with self.history_queue_lock:`
LoopAcquire ==
    /\ history.loop_op # "sleep" /\ ~history.loop_in
    /\ history.lock = "free"
    /\ history' = [history EXCEPT !.lock = "loop", !.loop_in = TRUE]
    /\ UNCHANGED <<mgr_all, hold, wire, life>>

\* What the controllers loop does after the call returned.
AfterCall(h) ==
    CASE h.loop_op = "reset_history" -> "is_history_full"
      [] h.loop_op = "is_history_full" ->
            IF Len(h.queue) = MaxWindow THEN "get_history_metric" ELSE "sleep"
      [] h.loop_op = "get_history_metric" -> "sleep"

\* The body of the with block (the clear, or the read) and its end.
LoopAccess ==
    /\ history.loop_in
    /\ history' = [Accessed(history, "loop") EXCEPT
                      !.queue = IF history.loop_op = "reset_history"
                                THEN <<>> ELSE @,
                      !.lock = "free",
                      !.loop_in = FALSE,
                      !.loop_op = AfterCall(history)]
    /\ UNCHANGED <<mgr_all, hold, wire, life>>

\* `sleep(1)` of _controllers_loop.
LoopSleep ==
    /\ history.loop_op = "sleep"
    /\ history' = [history EXCEPT !.loop_op = "is_history_full"]
    /\ UNCHANGED <<mgr_all, hold, wire, life>>

NextHistory ==
    \/ SamplerAcquire \/ SamplerQuery \/ SamplerAppend \/ SamplerSleep
    \/ LoopAcquire \/ LoopAccess \/ LoopSleep

SpecHistory == InitHistory /\ [][NextHistory]_vars

\* C24: the history is read or written only under the lock, and no thread
\* holds the lock while it sleeps or queries the device.
C24_LockDiscipline ==
    history.pc # "off" =>
        (/\ history.unlocked_accesses = 0
         /\ history.lock = "sampler" => history.sampler \notin {"query", "sleep"}
         /\ history.lock = "loop" => history.loop_op # "sleep")

InWindow == /\ hold.pc = "loop" /\ ~hold.stop_signal /\ ~hold.first
            /\ ~hold.find_target_sleep_time
            /\ 0 < Len(hold.util_samples)
            /\ Len(hold.util_samples) < hold.alg_config.util_samples_num

\* C25: inside a measurement window the samples follow each other on
\* consecutive iterations: after a sample that leaves the window incomplete
\* the next iteration samples again, without a new wait for inspect_interval.
C25_SamplesConsecutive == (hold.pc # "off" /\ InWindow) => hold.due

\* C26: a controller begins holding only when its idle predicate holds
\* against the mem_threshold of the config the controller was constructed
\* with, also while a START/RESTART with a new config is being handled.
C26_OwnThreshold ==
    [][\A i \in DOMAIN gpu_controllers :
         HoldStarted(i) =>
           validate_controller_start_condition(gpu_controllers[i],
                                               gpu_controllers[i].config)]_vars

\* C28: whenever the listener loop has ended (the listening socket is
\* closed), after SHUTDOWN or after the channel address vanished, no
\* controller is holding and no hold thread is alive: the controllers loop
\* was stopped and joined before the socket was closed.
C28_EndedNoneHolding ==
    ~socket_open =>
        (/\ ~running_signal
         /\ \A c \in ListedControllers : ~c.holding /\ ~HoldThreadAlive(c))

\* C29: the continuation of the daemonize(...) call in its caller (launch's
\* status polling) runs only in the original invoking process; the
\* daemonized process never executes it.
C29_ContinuationInParentOnly ==
    life.pc # "off" => life.continuation_in \subseteq {"parent"}

AlreadyRunning ==
    StrOf("Controllers are already running. Please stop them first.")

\* C30: every time the listener is about to dispatch a signal,
\* running_signal is set exactly when running_thread is not None, and then
\* gpu_controllers is not None; and START and RESTART never fail with
\* "Controllers are already running", whatever signals came before.
C30_FlagMatchesThread ==
    /\ lpc = "dispatch" =>
          (/\ running_signal <=> running_thread # "None"
           /\ running_signal => gpu_controllers # <<>>)
    /\ error # AlreadyRunning

\* C30 witness: the last request of a run is a START dispatched while the
\* controllers of an earlier START/RESTART are running.
C30_Witness ==
    /\ lpc = "dispatch"
    /\ socket_data.signal = "START"
    /\ served = MaxRequests
    /\ running_signal /\ running_thread # "None"


\* ============================== listen_signal: accept and receive
\* The listener's side of a connection, in `wire`: `conn, _ = accept()`,
\* then recv_socket_data(conn) with no timeout argument.  The accepted
\* socket is blocking: settimeout(10) is called on the listening socket
\* only.  The client sends any prefix of any frame and then closes its end
\* or keeps it open.
ListenEntry ==
    [WireEntry([signal |-> "GREETING", config |-> "None",
                error |-> NoException], NoTimeout)
       EXCEPT !.pc = "accept", !.op = "recv", !.sock = "closed"]

InitListen ==
    /\ ManagerInit
    /\ hold = NoHold
    /\ life = NoLife
    /\ history = NoHistory
    /\ wire = ListenEntry

\* `conn, _ = self.socket.accept()` returns a connection.
ListenAccept ==
    /\ wire.pc = "accept"
    /\ \E m \in Messages, closes \in BOOLEAN :
         \E k \in 0..Len(Frame(m)) :
           wire' = [ListenEntry EXCEPT !.pc = "enter",
                                       !.sock = "open",
                                       !.connects = 1,
                                       !.answer = m,
                                       !.peer_sent = k,
                                       !.stream = SubSeq(Frame(m), 1, k),
                                       !.peer_closes = closes]
    /\ UNCHANGED <<mgr_all, hold, life, history>>

\* recv_socket_data returned: dispatch, the response, the end of
\* `with conn:`, and the loop is back at accept.
ListenServe ==
    /\ WireAt("recv", "finally")
    /\ wire' = [wire EXCEPT !.pc = "accept", !.sock = "closed"]
    /\ UNCHANGED <<mgr_all, hold, life, history>>

NextListen ==
    \/ ListenAccept \/ SocketTimeoutEnter \/ RecvBody \/ RecvEOF
    \/ RecvTest \/ RecvDecode \/ SocketTimeoutExit \/ ListenServe

SpecListen == InitListen /\ [][NextListen]_vars

\* The same with every enabled step eventually taken.
SpecListenFair == SpecListen /\ WF_vars(NextListen)

\* C27: after accepting a connection the listener gets back to accepting
\* the next one, or exits, whatever the client does.
C27_ListenerNotStalled ==
    (wire.pc = "enter") ~> (wire.pc \in {"accept", "raised"})

====
